---- MODULE Spec2Model ----
\* A model of h11's ReceiveBuffer (src/h11/_receivebuffer.py): a growable byte
\* store with a consumed-prefix cursor and a resumable delimiter search.
EXTENDS Integers, Sequences, FiniteSets, TLC

\* ---------------------------------------------------------------- bounds
\* Total number of bytes ever appended in one behaviour.
MaxData == 5
\* Largest chunk handed to one append by a caller that may call again at once.
MaxChunk == 1
\* Largest chunk the polling consumer is fed between two rounds of polling.
MaxFeed == 3
\* Largest number of chunks the polling consumer is fed.
MaxFeeds == 3
\* Largest count handed to maybe_extract_at_most.
MaxCount == 2
\* Largest number of searches the scanning caller makes.
MaxCalls == 5
\* Total number of bytes appended to the two buffers run side by side.
MaxPairData == 4

\* ---------------------------------------------------------------- bytes
LF == 10
CR == 13
QMARK == 63
\* The bytes the producer may send: LF, CR and one ordinary byte ("a").
Byte == {LF, CR, 97}

Max(a, b) == IF a >= b THEN a ELSE b
Min(a, b) == IF a <= b THEN a ELSE b

\* ---------------------------------------------------------------- Python values
\* Every value carries its type, so that == between values of different types
\* is False as in Python, never a comparison of the payloads.
None == [tag |-> "None", v |-> <<>>]
Bytes(s) == [tag |-> "bytes", v |-> s]
PyInt(n) == [tag |-> "int", v |-> n]
List(l) == [tag |-> "list", v |-> l]
Raise(e) == [tag |-> "raise", v |-> e]
Self == [tag |-> "self", v |-> <<>>]

PyEq(x, y) == IF x.tag = y.tag THEN x.v = y.v ELSE FALSE

\* s[i:j] for 0 <= i, 0 <= j: Python clamps both ends to len(s).
Slice(s, i, j) ==
    LET lo == Min(i, Len(s))
        hi == Min(j, Len(s))
    IN IF lo >= hi THEN <<>> ELSE SubSeq(s, lo + 1, hi)

\* s[i], 0-based; a bytearray yields an int.
Index(s, i) == PyInt(s[i + 1])

\* ---------------------------------------------------------------- regular expressions
\* re.compile for the patterns in use: a sequence of literal bytes, each
\* optionally followed by "?".
RECURSIVE Compile(_)
Compile(src) ==
    IF Len(src) = 0 THEN <<>>
    ELSE IF Len(src) >= 2 /\ src[2] = QMARK
         THEN <<[byte |-> src[1], opt |-> TRUE]>> \o Compile(Slice(src, 2, Len(src)))
         ELSE <<[byte |-> src[1], opt |-> FALSE]>> \o Compile(Slice(src, 1, Len(src)))

\* End offset of the match of elements k.. of re anchored at offset i of d, or
\* -1. "?" is greedy: the byte is taken when the rest then matches.
RECURSIVE MatchFrom(_, _, _, _)
MatchFrom(re, k, d, i) ==
    IF k > Len(re) THEN i
    ELSE LET e == re[k]
             taken == IF i < Len(d) /\ d[i + 1] = e.byte
                      THEN MatchFrom(re, k + 1, d, i + 1)
                      ELSE -1
         IN IF e.opt /\ taken = -1 THEN MatchFrom(re, k + 1, d, i) ELSE taken

\* next(re.finditer(d, pos), None): the leftmost match starting at or after
\* pos, as its span, or None.
RECURSIVE Finditer(_, _, _)
Finditer(re, d, pos) ==
    IF pos > Len(d) THEN None
    ELSE LET e == MatchFrom(re, 1, d, pos)
         IN IF e # -1 THEN [tag |-> "match", v |-> <<pos, e>>]
            ELSE Finditer(re, d, pos + 1)

\* re.split(d): the fragments between successive non-overlapping matches.
RECURSIVE SplitFrom(_, _, _, _)
SplitFrom(re, d, i, last) ==
    IF i >= Len(d) THEN <<Slice(d, last, Len(d))>>
    ELSE LET e == MatchFrom(re, 1, d, i)
         IN IF e > i
            THEN <<Slice(d, last, i)>> \o SplitFrom(re, d, e, e)
            ELSE SplitFrom(re, d, i + 1, last)

Split(re, d) == SplitFrom(re, d, 0, 0)

\* ---------------------------------------------------------------- module constants
default_delimiter == <<LF, CR, QMARK, LF>>
delimiter_regex == Compile(<<LF, CR, QMARK, LF>>)
\* A slip: the line pattern without the optional CR.
line_delimiter_regex_LFOnly == Compile(<<LF>>)
line_delimiter_regex == Compile(<<CR, QMARK, LF>>)

\* The delimiters callers pass: the default blank-line pattern and CRLF.
crlf_delimiter == <<CR, LF>>
Delimiters == {default_delimiter, crlf_delimiter}

\* ---------------------------------------------------------------- ReceiveBuffer methods
\* Each method maps the object before the call to the object after it and the
\* value returned.
NewBuffer ==
    [data |-> <<>>, start |-> 0, looked_at |-> 0,
     delimiter |-> <<LF, CR, QMARK, LF>>, delimiter_regex |-> delimiter_regex]

len(b) == Len(b.data) - b.start

bytes(b) == Slice(b.data, b.start, Len(b.data))

\* A slip: compaction at half, not above half.
compress_AtHalf(b) ==
    IF b.start >= Len(b.data) \div 2
    THEN [b EXCEPT !.data = Slice(b.data, b.start, Len(b.data)),
                   !.looked_at = b.looked_at - b.start,
                   !.start = b.start - b.start]
    ELSE b

\* A slip: the rebased search position is floored at 0.
compress_Floored(b) ==
    IF b.start > Len(b.data) \div 2
    THEN [b EXCEPT !.data = Slice(b.data, b.start, Len(b.data)),
                   !.looked_at = Max(0, b.looked_at - b.start),
                   !.start = b.start - b.start]
    ELSE b

\* A slip: the storage is cut but the search position is not rebased.
compress_KeepLookedAt(b) ==
    IF b.start > Len(b.data) \div 2
    THEN [b EXCEPT !.data = Slice(b.data, b.start, Len(b.data)),
                   !.start = b.start - b.start]
    ELSE b

\* A slip: the storage is cut but start is not rebased.
compress_KeepStart(b) ==
    IF b.start > Len(b.data) \div 2
    THEN [b EXCEPT !.data = Slice(b.data, b.start, Len(b.data)),
                   !.looked_at = b.looked_at - b.start]
    ELSE b

compress(b) ==
    IF b.start > Len(b.data) \div 2
    THEN [b EXCEPT !.data = Slice(b.data, b.start, Len(b.data)),
                   !.looked_at = b.looked_at - b.start,
                   !.start = b.start - b.start]
    ELSE b

\* A slip: the chunk replaces the storage.
iadd_Replace(b, byteslike) == [b EXCEPT !.data = byteslike]

iadd(b, byteslike) == [b EXCEPT !.data = b.data \o byteslike]

\* A slip: start advances by the count asked for, not by what was returned.
maybe_extract_at_most_ByCount(b, count) ==
    LET out == Slice(b.data, b.start, b.start + count)
    IN IF Len(out) = 0
       THEN [buf |-> b, out |-> None]
       ELSE [buf |-> [b EXCEPT !.start = b.start + count], out |-> Bytes(out)]

\* A slip: the empty slice is returned as it is, not turned into None.
maybe_extract_at_most_NoNone(b, count) ==
    LET out == Slice(b.data, b.start, b.start + count)
    IN [buf |-> [b EXCEPT !.start = b.start + Len(out)], out |-> Bytes(out)]

maybe_extract_at_most(b, count) ==
    LET out == Slice(b.data, b.start, b.start + count)
    IN IF Len(out) = 0
       THEN [buf |-> b, out |-> None]
       ELSE [buf |-> [b EXCEPT !.start = b.start + Len(out)], out |-> Bytes(out)]

\* A slip: the remembered search position is not used.
ResumeAt_FromStart(b, delimiter) == b.start

\* A slip: the search resumes where the last one ended, without stepping back.
ResumeAt_NoBackoff(b, delimiter) == Max(b.start, b.looked_at)

\* The position the search starts from when the delimiter is the remembered one.
ResumeAt(b, delimiter) == Max(b.start, b.looked_at - Len(delimiter) + 1)

\* A slip: on no match start, not the search position, is moved to the end.
maybe_extract_until_delimiter_SkipOnMiss(b, delimiter) ==
    LET same == delimiter = b.delimiter
        looked_at == IF same THEN ResumeAt(b, delimiter) ELSE b.start
        regex == IF same THEN b.delimiter_regex
                 ELSE IF delimiter = default_delimiter THEN delimiter_regex
                 ELSE Compile(delimiter)
        b1 == [b EXCEPT !.delimiter = delimiter, !.delimiter_regex = regex]
        delimiter_match == Finditer(regex, b.data, looked_at)
    IN IF delimiter_match = None
       THEN [buf |-> [b1 EXCEPT !.start = Len(b.data)], out |-> None,
             scan |-> looked_at]
       ELSE LET end == delimiter_match.v[2]
            IN [buf |-> [b1 EXCEPT !.start = end],
                out |-> Bytes(Slice(b.data, b.start, end)), scan |-> looked_at]

\* Besides the object and the value returned, scan is the offset handed to
\* finditer: no byte of the storage below it is looked at.
maybe_extract_until_delimiter(b, delimiter) ==
    LET same == delimiter = b.delimiter
        looked_at == IF same THEN ResumeAt(b, delimiter) ELSE b.start
        regex == IF same THEN b.delimiter_regex
                 ELSE IF delimiter = default_delimiter THEN delimiter_regex
                 ELSE Compile(delimiter)
        b1 == [b EXCEPT !.delimiter = delimiter, !.delimiter_regex = regex]
        delimiter_match == Finditer(regex, b.data, looked_at)
    IN IF delimiter_match = None
       THEN [buf |-> [b1 EXCEPT !.looked_at = Len(b.data)], out |-> None,
             scan |-> looked_at]
       ELSE LET end == delimiter_match.v[2]
            IN [buf |-> [b1 EXCEPT !.start = end],
                out |-> Bytes(Slice(b.data, b.start, end)), scan |-> looked_at]

\* The scan offset of a call that searched nothing.
NoScan == <<>>

\* A slip: a one-byte slice compared with the two bytes CR LF.
StartsWithCRLF_OneByte(b) ==
    PyEq(Bytes(Slice(b.data, b.start, b.start + 1)), Bytes(<<CR, LF>>))

\* self._data[self._start : self._start + 2] == b"\r\n"
StartsWithCRLF(b) ==
    PyEq(Bytes(Slice(b.data, b.start, b.start + 2)), Bytes(<<CR, LF>>))

\* self._start < len(self._data) and self._data[self._start] == b"\n":
\* the left side is the int a bytearray yields, the right side a bytes object.
StartsWithLF(b) ==
    b.start < Len(b.data) /\ PyEq(Index(b.data, b.start), Bytes(<<LF>>))

\* A slip: only the last fragment is deleted.
SplitLines_DropOne(block) ==
    LET lines == Split(line_delimiter_regex, block)
        n == Len(lines)
    IN IF n < 2 THEN Raise("IndexError")
       ELSE IF ~(lines[n - 1] = lines[n] /\ lines[n] = <<>>) THEN Raise("AssertionError")
       ELSE List(SubSeq(lines, 1, n - 1))

\* The block the blank-line search returned, split into its lines: the assert
\* on the last two fragments, then del lines[-2:].
SplitLines(block) ==
    LET lines == Split(line_delimiter_regex, block)
        n == Len(lines)
    IN IF n < 2 THEN Raise("IndexError")
       ELSE IF ~(lines[n - 1] = lines[n] /\ lines[n] = <<>>) THEN Raise("AssertionError")
       ELSE List(SubSeq(lines, 1, n - 2))

maybe_extract_lines(b) ==
    IF StartsWithCRLF(b)
    THEN [buf |-> [b EXCEPT !.start = b.start + 2], out |-> List(<<>>), scan |-> NoScan]
    ELSE IF StartsWithLF(b)
    THEN [buf |-> [b EXCEPT !.start = b.start + 1], out |-> List(<<>>), scan |-> NoScan]
    ELSE LET r == maybe_extract_until_delimiter(b, <<LF, CR, QMARK, LF>>)
         IN IF r.out = None
            THEN [buf |-> r.buf, out |-> None, scan |-> r.scan]
            ELSE [buf |-> r.buf, out |-> SplitLines(r.out.v), scan |-> r.scan]

\* ---------------------------------------------------------------- state
VARIABLES
    self,       \* the ReceiveBuffer object
    op,         \* the last call made: its name and argument
    ret,        \* the value the last call returned
    total,      \* the number of bytes appended so far
    appended,   \* history kept by the logging callers: every byte appended
    returned,   \* history kept by the logging caller: every byte string returned, concatenated
    segs,       \* history kept by the polling consumer: the segments it was given
    chunks,     \* history kept by the polling consumer: the chunks it was fed
    scan,       \* the offset the last call's delimiter search started from
    work,       \* the scanning caller's count of storage bytes its searches covered
    calls,      \* the scanning caller's count of searches
    shadow,     \* a second ReceiveBuffer, given the same calls except compress
    shadow_ret  \* the value the last call on the second buffer returned

vars == <<self, op, ret, total, appended, returned, segs, chunks,
          scan, work, calls, shadow, shadow_ret>>
hist == <<appended, returned, segs, chunks>>
side == <<work, calls, shadow, shadow_ret>>

Chunks == UNION {[1..n -> Byte] : n \in 0..MaxChunk}
Feeds == UNION {[1..n -> Byte] : n \in 0..MaxFeed}
Counts == 0..MaxCount

RECURSIVE Flatten(_)
Flatten(ss) == IF Len(ss) = 0 THEN <<>> ELSE ss[1] \o Flatten(Tail(ss))

Init ==
    /\ self = NewBuffer
    /\ op = [name |-> "init", arg |-> <<>>]
    /\ ret = None
    /\ total = 0
    /\ appended = <<>>
    /\ returned = <<>>
    /\ segs = <<>>
    /\ chunks = <<>>
    /\ scan = NoScan
    /\ work = 0
    /\ calls = 0
    /\ shadow = NewBuffer
    /\ shadow_ret = None

\* ---------------------------------------------------------------- the calls
\* One call of a method on the buffer: the object and the returned value.
Call(name, arg, r) ==
    /\ self' = r.buf
    /\ op' = [name |-> name, arg |-> arg]
    /\ ret' = r.out

IaddCall(chunk) ==
    /\ total + Len(chunk) <= MaxData
    /\ Call("append", <<>>, [buf |-> iadd(self, chunk), out |-> Self])
    /\ total' = total + Len(chunk)

CompressCall ==
    /\ Call("compress", <<>>, [buf |-> compress(self), out |-> None])
    /\ UNCHANGED total

AtMostCall(count) ==
    /\ Call("at_most", count, maybe_extract_at_most(self, count))
    /\ UNCHANGED total

UntilCall(delimiter) ==
    /\ Call("until", delimiter, maybe_extract_until_delimiter(self, delimiter))
    /\ UNCHANGED total

LinesCall ==
    /\ Call("lines", <<>>, maybe_extract_lines(self))
    /\ UNCHANGED total

\* ---------------------------------------------------------------- any caller
AppendChunk(chunk) ==
    IaddCall(chunk) /\ scan' = NoScan /\ UNCHANGED <<hist, side>>

Compress ==
    CompressCall /\ scan' = NoScan /\ UNCHANGED <<hist, side>>

ExtractAtMost(count) ==
    AtMostCall(count) /\ scan' = NoScan /\ UNCHANGED <<hist, side>>

ExtractUntilDelimiter(delimiter) ==
    /\ UntilCall(delimiter)
    /\ scan' = maybe_extract_until_delimiter(self, delimiter).scan
    /\ UNCHANGED <<hist, side>>

ExtractLines ==
    /\ LinesCall
    /\ scan' = maybe_extract_lines(self).scan
    /\ UNCHANGED <<hist, side>>

Next ==
    \/ \E chunk \in Chunks : AppendChunk(chunk)
    \/ Compress
    \/ \E count \in Counts : ExtractAtMost(count)
    \/ \E delimiter \in Delimiters : ExtractUntilDelimiter(delimiter)
    \/ ExtractLines

Spec == Init /\ [][Next]_vars

\* ---------------------------------------------------------------- a caller that logs
\* The same calls without extract_lines, made by a caller that keeps every
\* chunk it appended and every byte string it was handed.
Logged(out) == IF out.tag = "bytes" THEN returned \o out.v ELSE returned

LogAppend(chunk) ==
    /\ IaddCall(chunk)
    /\ appended' = appended \o chunk
    /\ UNCHANGED <<returned, segs, chunks, scan, side>>

LogCompress == CompressCall /\ UNCHANGED <<hist, scan, side>>

LogAtMost(count) ==
    /\ AtMostCall(count)
    /\ returned' = Logged(ret')
    /\ UNCHANGED <<appended, segs, chunks, scan, side>>

LogUntil(delimiter) ==
    /\ UntilCall(delimiter)
    /\ returned' = Logged(ret')
    /\ UNCHANGED <<appended, segs, chunks, scan, side>>

NextBytes ==
    \/ \E chunk \in Chunks : LogAppend(chunk)
    \/ LogCompress
    \/ \E count \in Counts : LogAtMost(count)
    \/ \E delimiter \in Delimiters : LogUntil(delimiter)

SpecBytes == Init /\ [][NextBytes]_vars

\* ---------------------------------------------------------------- a polling consumer
\* A consumer of one delimiter: after every append it polls
\* maybe_extract_until_delimiter() until that returns None.
Polling == op.name = "append" \/ (op.name = "until" /\ ret # None)

Feed(chunk) ==
    /\ ~Polling
    /\ Len(chunks) < MaxFeeds
    /\ IaddCall(chunk)
    /\ chunks' = Append(chunks, chunk)
    /\ UNCHANGED <<appended, returned, segs, scan, side>>

Poll ==
    /\ Polling
    /\ UntilCall(default_delimiter)
    /\ segs' = IF ret'.tag = "bytes" THEN Append(segs, ret'.v) ELSE segs
    /\ UNCHANGED <<appended, returned, chunks, scan, side>>

NextChunk ==
    \/ \E chunk \in Feeds : Feed(chunk)
    \/ Poll

SpecChunk == Init /\ [][NextChunk]_vars

\* ---------------------------------------------------------------- a scanning caller
\* A caller that appends and searches for one delimiter, in runs where no
\* search finds it. It counts its searches and, for each, the storage bytes
\* from the offset the search started at to the end of the storage.
WorkAppend(chunk) ==
    /\ IaddCall(chunk)
    /\ scan' = NoScan
    /\ UNCHANGED <<hist, side>>

WorkScan(delimiter) ==
    LET r == maybe_extract_until_delimiter(self, delimiter)
    IN /\ calls < MaxCalls
       /\ calls = 0 \/ delimiter = self.delimiter
       /\ r.out = None
       /\ UntilCall(delimiter)
       /\ scan' = r.scan
       /\ work' = work + (Len(self.data) - r.scan)
       /\ calls' = calls + 1
       /\ UNCHANGED <<hist, shadow, shadow_ret>>

NextWork ==
    \/ \E chunk \in Chunks : WorkAppend(chunk)
    \/ \E delimiter \in Delimiters : WorkScan(delimiter)

SpecWork == Init /\ [][NextWork]_vars

\* ---------------------------------------------------------------- two buffers
\* Two buffers given the same appends and extraction calls; compress is called
\* on the first only, at any point.
PairStep(name, r, s) ==
    /\ self' = r.buf
    /\ ret' = r.out
    /\ shadow' = s.buf
    /\ shadow_ret' = s.out
    /\ op' = [name |-> name, arg |-> <<>>]
    /\ UNCHANGED <<hist, scan, work, calls>>

PairAppend(chunk) ==
    /\ total + Len(chunk) <= MaxPairData
    /\ total' = total + Len(chunk)
    /\ PairStep("append", [buf |-> iadd(self, chunk), out |-> Self],
                          [buf |-> iadd(shadow, chunk), out |-> Self])

PairCompress ==
    /\ UNCHANGED total
    /\ PairStep("compress", [buf |-> compress(self), out |-> None],
                            [buf |-> shadow, out |-> shadow_ret])

PairAtMost(count) ==
    /\ UNCHANGED total
    /\ PairStep("at_most", maybe_extract_at_most(self, count),
                           maybe_extract_at_most(shadow, count))

PairUntil(delimiter) ==
    /\ UNCHANGED total
    /\ PairStep("until", maybe_extract_until_delimiter(self, delimiter),
                         maybe_extract_until_delimiter(shadow, delimiter))

PairLines ==
    /\ UNCHANGED total
    /\ PairStep("lines", maybe_extract_lines(self), maybe_extract_lines(shadow))

NextPair ==
    \/ \E chunk \in Chunks : PairAppend(chunk)
    \/ PairCompress
    \/ \E count \in Counts : PairAtMost(count)
    \/ \E delimiter \in Delimiters : PairUntil(delimiter)
    \/ PairLines

SpecPair == Init /\ [][NextPair]_vars

\* The segments a fresh buffer yields when the whole stream is appended at once
\* and polled until no match.
RECURSIVE PollAll(_)
PollAll(b) ==
    LET r == maybe_extract_until_delimiter(b, default_delimiter)
    IN IF r.out = None THEN <<>> ELSE <<r.out.v>> \o PollAll(r.buf)

AtOnce(stream) == PollAll(iadd(NewBuffer, stream))

\* ---------------------------------------------------------------- what the callers are told
\* The unconsumed region, storage[start:].
Region == bytes(self)

\* w is an occurrence of the delimiter: LF LF or LF CR LF for the blank-line
\* pattern, the literal otherwise.
IsOcc(delimiter, w) ==
    IF delimiter = default_delimiter
    THEN w \in {<<LF, LF>>, <<LF, CR, LF>>}
    ELSE w = delimiter

\* The spans <<i, j>> of the occurrences of the delimiter in s.
Occs(delimiter, s) ==
    {o \in (0..Len(s)) \X (0..Len(s)) : o[1] < o[2] /\ IsOcc(delimiter, Slice(s, o[1], o[2]))}

FirstOcc(delimiter, s) ==
    CHOOSE o \in Occs(delimiter, s) : \A p \in Occs(delimiter, s) : o[1] <= p[1]

\* C1: maybe_extract_until_delimiter(delimiter) returns the unconsumed bytes up
\* to the end of the first occurrence of the delimiter in the unconsumed region
\* and moves start there; it returns None only when the region holds no
\* occurrence.
C1_FirstOccurrence ==
    [][(op'.name = "until") =>
        LET s == Region
            occs == Occs(op'.arg, s)
        IN IF occs = {}
           THEN ret' = None
           ELSE LET end == FirstOcc(op'.arg, s)[2]
                IN /\ ret' = Bytes(Slice(s, 0, end))
                   /\ self'.start = self.start + end
                   /\ self'.data = self.data]_vars

\* C2: once the polling consumer has polled to None, the segments it was given
\* are those of a buffer that got the whole stream in one append, and no
\* complete delimiter is left in the unconsumed region.
C2_ChunkingIndependence ==
    ~Polling =>
        /\ segs = AtOnce(Flatten(chunks))
        /\ Occs(default_delimiter, Region) = {}

\* A delimiter of the first segment was cut by a chunk boundary: after some
\* chunk the stream ended one byte short of the segment.
C2_Witness ==
    /\ ~Polling
    /\ Len(segs) >= 1
    /\ \E k \in 1..Len(chunks) :
          Len(Flatten(SubSeq(chunks, 1, k))) = Len(segs[1]) - 1

\* C3: the byte strings returned so far, concatenated in call order and
\* followed by the unconsumed region, are the chunks appended so far,
\* concatenated.
C3_Lossless == returned \o Region = appended

C3_Witness ==
    /\ op.name = "until"
    /\ ret.tag = "bytes"
    /\ Len(returned) > Len(ret.v)
    /\ Region # <<>>
    /\ Len(self.data) < Len(appended)

\* C4: maybe_extract_at_most(0) on a non-empty unconsumed region returns an
\* empty byte string, not None, and leaves start alone.
C4_ZeroReturnsEmpty ==
    [][(op'.name = "at_most" /\ op'.arg = 0 /\ len(self) > 0) =>
        (ret' = Bytes(<<>>) /\ self'.start = self.start)]_vars

\* C5: maybe_extract_at_most(n), n >= 1, on a non-empty unconsumed region of a
\* bytes returns its first min(n, a) bytes, advances start by min(n, a) and
\* leaves the storage, the search position and the delimiter alone.
C5_AtMost ==
    [][(op'.name = "at_most" /\ op'.arg >= 1 /\ len(self) > 0) =>
        LET k == Min(op'.arg, len(self))
        IN /\ ret' = Bytes(Slice(Region, 0, k))
           /\ self'.start = self.start + k
           /\ self'.data = self.data
           /\ self'.looked_at = self.looked_at
           /\ self'.delimiter = self.delimiter]_vars

\* A call that asked for more than there was and got what there was.
C5_Witness ==
    /\ op.name = "at_most"
    /\ ret.tag = "bytes"
    /\ Len(ret.v) < op.arg
    /\ self.start > Len(ret.v)

\* C6: maybe_extract_at_most(n) on an empty unconsumed region returns None and
\* changes nothing.
C6_EmptyGivesNone ==
    [][(op'.name = "at_most" /\ len(self) = 0) => (ret' = None /\ self' = self)]_vars

\* Asked of a buffer that was consumed to the end and compacted.
C6_Witness ==
    /\ op.name = "at_most"
    /\ op.arg >= 1
    /\ ret = None
    /\ self.data = <<>>
    /\ total > 0

\* The lines of a header block: one or more lines, each a non-empty run of
\* bytes other than CR and LF ended by CR LF or LF, then one blank line
\* (CR LF or LF). <<>> marks a string that is no header block.
RECURSIVE RunLen(_, _)
RunLen(s, i) ==
    IF i < Len(s) /\ s[i + 1] \notin {CR, LF} THEN 1 + RunLen(s, i + 1) ELSE 0

RECURSIVE HeaderLinesFrom(_, _, _)
HeaderLinesFrom(s, i, acc) ==
    LET n == RunLen(s, i)
        rest == Slice(s, i + n, Len(s))
    IN IF n = 0
       THEN IF acc # <<>> /\ rest \in {<<CR, LF>>, <<LF>>} THEN acc ELSE <<>>
       ELSE IF Slice(rest, 0, 2) = <<CR, LF>>
            THEN HeaderLinesFrom(s, i + n + 2, Append(acc, Slice(s, i, i + n)))
       ELSE IF Slice(rest, 0, 1) = <<LF>>
            THEN HeaderLinesFrom(s, i + n + 1, Append(acc, Slice(s, i, i + n)))
       ELSE <<>>

HeaderLines(s) == HeaderLinesFrom(s, 0, <<>>)
IsHeaderBlock(s) == HeaderLines(s) # <<>>

\* C7: when the unconsumed region is exactly a header block,
\* maybe_extract_lines returns its lines in order, without terminators and
\* without the blank line, and leaves the unconsumed region empty.
C7_HeaderBlock ==
    [][(op'.name = "lines" /\ IsHeaderBlock(Region)) =>
        (ret' = List(HeaderLines(Region)) /\ len(self') = 0)]_vars

\* A block of two lines was returned, after an earlier search had looked at
\* part of it.
C7_Witness ==
    /\ op.name = "lines"
    /\ ret = List(<< <<97>>, <<97>> >>)
    /\ len(self) = 0
    /\ self.looked_at > self.start - 5

\* C8: when the unconsumed region begins with LF, maybe_extract_lines consumes
\* that one byte and returns no lines.
C8_BareLF ==
    [][(op'.name = "lines" /\ Slice(Region, 0, 1) = <<LF>>) =>
        (ret' = List(<<>>) /\ self'.start = self.start + 1)]_vars

\* C9: when the unconsumed region begins with CR LF, maybe_extract_lines
\* consumes those two bytes, nothing more, and returns no lines.
C9_CRLF ==
    [][(op'.name = "lines" /\ Slice(Region, 0, 2) = <<CR, LF>>) =>
        /\ ret' = List(<<>>)
        /\ self'.start = self.start + 2
        /\ self'.data = self.data
        /\ self'.looked_at = self.looked_at
        /\ self'.delimiter = self.delimiter]_vars

\* CR LF was consumed from in front of more bytes, with search progress
\* remembered beyond it.
C9_Witness ==
    /\ op.name = "lines"
    /\ ret = List(<<>>)
    /\ self.start >= 2
    /\ Slice(self.data, self.start - 2, self.start) = <<CR, LF>>
    /\ len(self) > 0
    /\ self.looked_at > self.start

\* C10: the check on the last two fragments in maybe_extract_lines never
\* fails: no call raises AssertionError or IndexError.
C10_AssertHolds == ret.tag # "raise"

\* A block was split whose bytes mix CR and LF outside the CR LF pairs: a
\* returned line holds a CR.
C10_Witness ==
    /\ op.name = "lines"
    /\ ret.tag = "list"
    /\ \E i \in 1..Len(ret.v) : \E j \in 1..Len(ret.v[i]) : ret.v[i][j] = CR

\* C11: with compress() calls put in at any points, every extraction call
\* returns what it returns in the run without them, and the length and the
\* unconsumed region are the same after every step.
C11_CompressTransparent ==
    /\ op.name \in {"at_most", "until", "lines"} => ret = shadow_ret
    /\ len(self) = len(shadow)
    /\ bytes(self) = bytes(shadow)

\* A delimiter was found by a search that resumed from a position compress had
\* rebased: the storage was cut and the search position is past its start.
C11_Witness ==
    /\ op.name = "until"
    /\ ret.tag = "bytes"
    /\ Len(self.data) < Len(shadow.data)
    /\ self.looked_at > 0
    /\ self.looked_at < shadow.looked_at

\* C12: over any run of no-match searches for one delimiter, mixed with
\* appends, the bytes covered by the searches are at most a fixed multiple
\* (here the delimiter's length) of the bytes appended, however many searches
\* are made.
C12_BoundedRescanning == work <= Len(self.delimiter) * total

\* C12, amended: the bytes covered are at most the bytes appended plus
\* len(delimiter) - 1 for every search made.
C12_WorkBound == work <= total + (Len(self.delimiter) - 1) * calls

\* Searches were repeated and covered more bytes than were ever appended.
C12_Witness ==
    /\ op.name = "until"
    /\ ret = None
    /\ calls >= 2
    /\ work > total

\* C13: when maybe_extract_until_delimiter or maybe_extract_lines returns
\* None, start and the storage are as they were before the call.
C13_NoMatchKeeps ==
    [][(op'.name \in {"until", "lines"} /\ ret' = None) =>
        (self'.start = self.start /\ self'.data = self.data)]_vars

\* maybe_extract_lines found no blank line in a non-empty unconsumed region
\* behind consumed bytes.
C13_Witness ==
    /\ op.name = "lines"
    /\ ret = None
    /\ self.start > 0
    /\ len(self) >= 2

\* C14: no complete occurrence of the remembered delimiter lies inside
\* storage[start:looked_at].
C14_SearchedRegionClean ==
    Occs(self.delimiter, Slice(self.data, self.start, Max(self.start, self.looked_at))) = {}

\* C15: start <= looked_at <= len(storage) in every state.
C15_SearchedBetween ==
    self.start <= self.looked_at /\ self.looked_at <= Len(self.data)

\* C15, amended: looked_at <= len(storage) in every state.
C15_SearchedWithinStorage == self.looked_at <= Len(self.data)

\* After a compaction the search position is the end of a storage that holds
\* unconsumed bytes.
C15_Witness ==
    /\ op.name = "compress"
    /\ Len(self.data) < total
    /\ self.looked_at = Len(self.data)
    /\ self.looked_at > 0

\* C16: when compress() compacts, the storage becomes storage[start:], start
\* becomes 0 and looked_at becomes max(0, looked_at - start).
C16_CompactFloored ==
    [][(op'.name = "compress" /\ self.start > Len(self.data) \div 2) =>
        /\ self'.data = Slice(self.data, self.start, Len(self.data))
        /\ self'.start = 0
        /\ self'.looked_at = Max(0, self.looked_at - self.start)]_vars

\* C16, amended: looked_at becomes looked_at - start, negative when start was
\* past it.
C16_Compact ==
    [][(op'.name = "compress" /\ self.start > Len(self.data) \div 2) =>
        /\ self'.data = Slice(self.data, self.start, Len(self.data))
        /\ self'.start = 0
        /\ self'.looked_at = self.looked_at - self.start]_vars

\* A compaction left a negative search position in front of unconsumed bytes.
C16_Witness ==
    /\ op.name = "compress"
    /\ self.start = 0
    /\ self.looked_at < 0
    /\ Len(self.data) > 0

\* C17: compress() changes the object exactly when twice start exceeds
\* len(storage); otherwise it changes nothing; the length is the same either
\* way.
C17_CompressFrame ==
    [][(op'.name = "compress") =>
        /\ (self' # self) <=> (2 * self.start > Len(self.data))
        /\ len(self') = len(self)
        /\ self'.delimiter = self.delimiter]_vars

\* compress() was called with start at exactly half of the storage and did
\* nothing.
C17_Witness ==
    /\ op.name = "compress"
    /\ self.start > 0
    /\ 2 * self.start = Len(self.data)

\* C18: 0 <= start <= len(storage), so the length is never negative.
C18_StartWithinStorage ==
    /\ 0 <= self.start
    /\ self.start <= Len(self.data)
    /\ len(self) >= 0

\* maybe_extract_lines consumed the storage to its end.
C18_Witness ==
    /\ op.name = "lines"
    /\ ret.tag = "list"
    /\ self.start = Len(self.data)
    /\ self.start >= 2

\* C19: a maybe_extract_until_delimiter call with the remembered delimiter
\* looks at no storage byte below max(start, looked_at - (len(delimiter) - 1));
\* so after a no-match call, the same call made again at once covers at most
\* len(delimiter) - 1 bytes.
C19_ResumePosition ==
    /\ []((op.name = "until" /\ ret = None) =>
            Len(self.data) - Max(self.start, self.looked_at - (Len(op.arg) - 1))
                <= Len(op.arg) - 1)
    /\ [][(op'.name = "until" /\ op'.arg = self.delimiter) =>
            /\ scan' >= Max(self.start, self.looked_at - (Len(op'.arg) - 1))
            /\ (op.name = "until" /\ op.arg = op'.arg /\ ret = None) =>
                   Len(self.data) - scan' <= Len(op'.arg) - 1]_vars

\* A no-match call with the remembered delimiter resumed past start,
\* len(delimiter) - 1 bytes before the end of the storage.
C19_Witness ==
    /\ op.name = "until"
    /\ ret = None
    /\ scan > self.start
    /\ scan = Len(self.data) - (Len(op.arg) - 1)

\* C20: append(chunk) leaves start, looked_at and the delimiter alone, keeps
\* the stored bytes, puts the chunk behind the unconsumed region, lengthens it
\* by len(chunk), and changes nothing when the chunk is empty.
C20_AppendFrame ==
    [][(op'.name = "append") =>
        LET chunk == Slice(appended', Len(appended), Len(appended'))
        IN /\ self'.start = self.start
           /\ self'.looked_at = self.looked_at
           /\ self'.delimiter = self.delimiter
           /\ Slice(self'.data, 0, Len(self.data)) = self.data
           /\ bytes(self') = bytes(self) \o chunk
           /\ len(self') = len(self) + Len(chunk)
           /\ chunk = <<>> => self' = self]_vars

\* A byte was appended behind unconsumed bytes, past a search position that
\* lies past start.
C20_Witness ==
    /\ op.name = "append"
    /\ self.start > 0
    /\ self.looked_at > self.start
    /\ Len(self.data) > self.looked_at
    /\ appended # <<>>

TypeOK ==
    /\ self.start \in 0..Len(self.data)
    /\ self.looked_at \in Int
    /\ self.delimiter \in Delimiters
====
